---- MODULE Spec2Model ----
(***************************************************************************)
(* A model of covidreport (src/src/main.rs): the join of the daily cases   *)
(* table into the hospital-capacity table, the per-jurisdiction series,    *)
(* the gap filler, the 7-day step windows, the transmission-risk bands and *)
(* the weekday decomposition.                                              *)
(*                                                                         *)
(* Conventions.                                                            *)
(*  - Option<u32> is a sequence: None is <<>>, Some(x) is <<x>>.           *)
(*  - A chrono::NaiveDate is a record [year, month, day].                  *)
(*  - An f32/f64 value is an exact fraction [n, d] (d > 0), or one of the  *)
(*    special values NaN / Inf that a division by zero produces; rounding  *)
(*    of the last bit is not modelled.                                     *)
(*  - A Rust panic is an outcome [ok |-> FALSE, why |-> ...].  An index    *)
(*    computation that goes below zero panics either at the subtraction    *)
(*    (a build with overflow checks) or, wrapped to a huge usize, at the   *)
(*    access that uses it: overflow_checks is the build.                   *)
(*  - Counts are u32 in the program.  cleanup's values are held as two     *)
(*    16-bit halves, so that its addition overflows as it does in the      *)
(*    program; the counts of the records stay far below 2^31, so that no   *)
(*    other sum or product of the model reaches 2^32.                      *)
(***************************************************************************)
EXTENDS Integers, Sequences, FiniteSets, TLC

VARIABLES
    pc,               \* where the run is
    overflow_checks,  \* the build: TRUE panics on integer overflow, FALSE wraps
    case_records,     \* rows of the cases file (CasesRecord)
    hosp_records,     \* rows of the hospital file (HospitalRecord, new_cases unset)
    all_records,      \* get_all_records' result
    all_jurisdictions,\* the jurisdictions the final loop has yet to visit
    report,           \* what the run has printed so far, in order
    vals,             \* cleanup's argument
    result,           \* cleanup's return value (an outcome)
    recs,             \* the series handed to the step comparison
    steps,            \* the step comparison's outcome
    population,       \* printstats' population argument
    stats,            \* printstats' outcome: what it printed, or its panic
    dayper,           \* dayreport's outcome (the seven weekday weights)
    files_ok          \* whether the day's CSV files can be opened

vars == <<pc, overflow_checks, files_ok, case_records, hosp_records, all_records,
          all_jurisdictions, report, vals, result, recs, steps, population, stats, dayper>>

----------------------------------------------------------------------------
(* Values *)

None == <<>>
Some(x) == <<x>>
is_some(o) == o # <<>>
unwrap_or(o, dflt) == IF o = <<>> THEN dflt ELSE o[1]

Ok(v) == [ok |-> TRUE, val |-> v]
Panic(why) == [ok |-> FALSE, why |-> why]

\* a - b on usize where the result indexes a slice: below zero it panics at
\* the subtraction, or wraps and panics at the access
index_underflow ==
    IF overflow_checks THEN Panic("attempt to subtract with overflow")
    ELSE Panic("index out of range")

\* a u32 is held as two 16-bit halves, [hi, lo], so that the whole range
\* 0 .. 2^32 - 1 and the overflow of a sum are within reach
Half == 65536
U32(hi, lo) == [hi |-> hi, lo |-> lo]
u32_of(n) == U32(n \div Half, n % Half)
u32_max == U32(Half - 1, Half - 1)

\* a + b on u32: a panic in a build with overflow checks, wrapped otherwise
u32_add(a, b) ==
    LET lo == a.lo + b.lo
        hi == a.hi + b.hi + (lo \div Half)
    IN  IF hi >= Half /\ overflow_checks THEN Panic("attempt to add with overflow")
        ELSE Ok(U32(hi % Half, lo % Half))

\* a / 2 on u32
u32_half(a) == U32(a.hi \div 2, (a.lo + Half * (a.hi % 2)) \div 2)

u32_unwrap_or_0(o) == IF o = None THEN u32_of(0) ELSE o[1]

\* "x as i32" of a u32: the same 32 bits read as two's complement
as_i32(a) ==
    IF a.hi < Half \div 2 THEN a.hi * Half + a.lo
    ELSE (a.hi - Half) * Half + a.lo

MaxI32 == 2147483647

\* a - b on i32: a panic in a build with overflow checks, wrapped otherwise
i32_sub(a, b) ==
    IF a >= 0 /\ b < 0 /\ a > MaxI32 + b
    THEN IF overflow_checks THEN Panic("attempt to subtract with overflow")
         ELSE Ok(((a - MaxI32) - 1) + (((0 - 1) - b) - MaxI32))
    ELSE IF a < 0 /\ b > 0 /\ a < (b - MaxI32) - 1
    THEN IF overflow_checks THEN Panic("attempt to subtract with overflow")
         ELSE Ok(((a + MaxI32) + 1) + ((MaxI32 - b) + 1))
    ELSE Ok(a - b)

\* a * k on u32, for a small factor k
u32_mul(a, k) ==
    LET lo == a.lo * k
        hi == a.hi * k + (lo \div Half)
    IN  IF hi >= Half /\ overflow_checks THEN Panic("attempt to multiply with overflow")
        ELSE Ok(U32(hi % Half, lo % Half))

Date(y, m, d) == [year |-> y, month |-> m, day |-> d]

IsLeap(y) == (y % 4 = 0 /\ y % 100 # 0) \/ y % 400 = 0
DaysInMonth(y, m) ==
    IF m = 2 THEN (IF IsLeap(y) THEN 29 ELSE 28)
    ELSE IF m \in {4, 6, 9, 11} THEN 30 ELSE 31

RECURSIVE DaysBeforeMonth(_, _)
DaysBeforeMonth(y, m) == IF m = 1 THEN 0 ELSE DaysBeforeMonth(y, m - 1) + DaysInMonth(y, m - 1)

\* days since 0000-12-31 in the proleptic Gregorian calendar (years >= 1)
num_days_from_ce(d) ==
    LET y == d.year - 1
    IN  365 * y + (y \div 4) - (y \div 100) + (y \div 400)
        + DaysBeforeMonth(d.year, d.month) + d.day

\* the date that is n days after 0000-12-31
from_num_days_from_ce(n) ==
    LET z == n + 305
        era == z \div 146097
        doe == z - era * 146097
        yoe == (doe - (doe \div 1460) + (doe \div 36524) - (doe \div 146096)) \div 365
        doy == doe - (365 * yoe + (yoe \div 4) - (yoe \div 100))
        mp == (5 * doy + 2) \div 153
        d == doy - ((153 * mp + 2) \div 5) + 1
        m == IF mp < 10 THEN mp + 3 ELSE mp - 9
    IN  Date(yoe + era * 400 + (IF m <= 2 THEN 1 ELSE 0), m, d)

\* d + Duration::days(k)
add_days(d, k) == from_num_days_from_ce(num_days_from_ce(d) + k)
succ_date(d) == add_days(d, 1)

\* date.weekday().num_days_from_monday(): 0001-01-01 was a Monday
num_days_from_monday(d) == (num_days_from_ce(d) - 1) % 7

Pad2(n) == IF n < 10 THEN "0" \o ToString(n) ELSE ToString(n)
Pad4(n) ==
    IF n < 10 THEN "000" \o ToString(n)
    ELSE IF n < 100 THEN "00" \o ToString(n)
    ELSE IF n < 1000 THEN "0" \o ToString(n)
    ELSE ToString(n)

\* Display for NaiveDate: %Y-%m-%d, the year signed outside 0..9999
format_date(d) ==
    (IF d.year >= 0 /\ d.year <= 9999 THEN Pad4(d.year)
     ELSE IF d.year > 9999 THEN "+" \o ToString(d.year)
     ELSE "-" \o Pad4(0 - d.year))
    \o "-" \o Pad2(d.month) \o "-" \o Pad2(d.day)

----------------------------------------------------------------------------
(* Records *)

CasesRecord(county, date, new_cases) ==
    [county |-> county, date |-> date, new_cases |-> new_cases]

\* a row as the CSV reader yields it: new_cases is #[serde(skip)], so None;
\* covid_hospitalized and covid_icu are Option<u32> over the whole u32 range
HospitalRecord(county, date, hosp, icu, ms_avail, ms_total) ==
    [county |-> county, date |-> date,
     med_surg_available |-> ms_avail, med_surg_total |-> ms_total,
     covid_hospitalized |-> hosp, covid_icu |-> icu,
     new_cases |-> None]

----------------------------------------------------------------------------
(* get_all_records: the join *)

\* format!("{}{}", county, date)
join_key(r) == r.county \o format_date(r.date)

\* the keys the insert loop inserts, in the order of the case rows
case_keys(cs) == SubSeq([i \in 1..Len(cs) |-> join_key(cs[i])], 1, Len(cs))

\* the case rows inserted under a key
rows_with_key(keys, key) == {i \in 1..Len(keys) : keys[i] = key}

\* casehash.get(&key) after the insert loop: an insert replaces the row
\* stored under its key, so the last row inserted under the key stays
casehash(cs, keys, key) ==
    LET S == rows_with_key(keys, key)
    IN  IF S = {} THEN None ELSE Some(cs[CHOOSE i \in S : \A j \in S : j <= i])

\* the loop over all_records: a row whose key is in casehash takes its count
join_records(cs, hs) ==
    LET keys == case_keys(cs)
    IN  SubSeq([i \in 1..Len(hs) |->
                  LET caserec == casehash(cs, keys, join_key(hs[i]))
                  IN  IF caserec # None
                      THEN [hs[i] EXCEPT !.new_cases = caserec[1].new_cases]
                      ELSE hs[i]],
               1, Len(hs))

\* get_all_records(today): Err when a file cannot be opened
get_all_records ==
    IF files_ok THEN Ok(join_records(case_records, hosp_records))
    ELSE [ok |-> FALSE, why |-> "Err: cannot open file"]

----------------------------------------------------------------------------
(* The series of one jurisdiction: filter, then a stable sort by date *)

\* the rows of rs dated lo..hi (days from CE), in order of date, rows of one
\* date in the order they have in rs
RECURSIVE sort_range(_, _, _)
sort_range(rs, lo, hi) ==
    IF Len(rs) <= 1 \/ lo >= hi THEN rs
    ELSE LET mid == (lo + hi) \div 2
         IN  sort_range(SelectSeq(rs, LAMBDA x : num_days_from_ce(x.date) <= mid), lo, mid)
             \o sort_range(SelectSeq(rs, LAMBDA x : num_days_from_ce(x.date) > mid),
                           mid + 1, hi)

\* sort_by_key(|r| r.date): stable
sort_by_date(rs) ==
    LET days == {num_days_from_ce(rs[i].date) : i \in 1..Len(rs)}
    IN  IF rs = <<>> THEN rs
        ELSE sort_range(rs, CHOOSE x \in days : \A y \in days : x <= y,
                            CHOOSE x \in days : \A y \in days : y <= x)

\* .filter(|x| x.county == jurisdiction)
filter_county(rs, jurisdiction) == SelectSeq(rs, LAMBDA x : x.county = jurisdiction)

\* .filter(|x| x.county == jurisdiction).sorted_by_key(|x| x.date)
county_records_of(rs, jurisdiction) == sort_by_date(filter_county(rs, jurisdiction))

----------------------------------------------------------------------------
(* cleanup: the gap filler *)

\* a fill that averages only the neighbours that are present
cleanup_at_present(v, i) ==
    IF is_some(v[i]) THEN Ok(v[i][1])
    ELSE IF i = 1 \/ i = Len(v) THEN Ok(u32_of(0))
    ELSE IF v[i - 1] = None THEN Ok(u32_unwrap_or_0(v[i + 1]))
    ELSE IF v[i + 1] = None THEN Ok(v[i - 1][1])
    ELSE LET sum == u32_add(v[i - 1][1], v[i + 1][1])
         IN  IF sum.ok THEN Ok(u32_half(sum.val)) ELSE sum

\* the value pushed for position i (1-based here, 0-based in the source), or
\* the panic of the addition
cleanup_at(v, i) ==
    IF is_some(v[i]) THEN Ok(v[i][1])
    ELSE IF i = 1 \/ i = Len(v) THEN Ok(u32_of(0))
    ELSE LET sum == u32_add(u32_unwrap_or_0(v[i - 1]), u32_unwrap_or_0(v[i + 1]))
         IN  IF sum.ok THEN Ok(u32_half(sum.val)) ELSE sum

\* the values of a sequence of outcomes, or the first panic among them
collect(at) ==
    LET bad == {i \in 1..Len(at) : ~at[i].ok}
    IN  IF bad = {} THEN Ok([i \in 1..Len(at) |-> at[i].val])
        ELSE at[CHOOSE i \in bad : \A j \in bad : i <= j]

\* cleanup(vals): the vector returned, or the panic of the first position
\* whose addition overflows
cleanup(v) == collect(SubSeq([i \in 1..Len(v) |-> cleanup_at(v, i)], 1, Len(v)))

----------------------------------------------------------------------------
(* f32 arithmetic: exact fractions, with the values a zero divisor yields *)

Frac(n, d) == [n |-> n, d |-> d]
NaN == [n |-> 0, d |-> 0]
Inf == [n |-> 1, d |-> 0]
is_nan(x) == x.d = 0 /\ x.n = 0

RECURSIVE Gcd(_, _)
Gcd(a, b) == IF b = 0 THEN a ELSE Gcd(b, a % b)
Reduce(x) ==
    IF x.d = 0 \/ x.n = 0 THEN (IF x.d = 0 THEN x ELSE Frac(0, 1))
    ELSE LET g == Gcd(x.n, x.d) IN Frac(x.n \div g, x.d \div g)

\* a + b
f_add(a, b) ==
    IF is_nan(a) \/ is_nan(b) THEN NaN
    ELSE IF a.d = 0 THEN a
    ELSE IF b.d = 0 THEN b
    ELSE Reduce(Frac(a.n * b.d + b.n * a.d, a.d * b.d))

\* a / b, for a, b >= 0: x/0 is +inf, 0/0 is NaN
f_div(a, b) ==
    IF is_nan(a) \/ is_nan(b) THEN NaN
    ELSE IF a.d = 0 THEN (IF b.d = 0 THEN NaN ELSE Inf)
    ELSE IF b.d = 0 THEN Frac(0, 1)
    ELSE IF b.n = 0 THEN (IF a.n = 0 THEN NaN ELSE Inf)
    ELSE Reduce(Frac(a.n * b.d, a.d * b.n))

\* a < b and a = b as IEEE compares them: false when either is NaN
f_lt(a, b) ==
    /\ ~is_nan(a) /\ ~is_nan(b)
    /\ IF a.d = 0 THEN FALSE
       ELSE IF b.d = 0 THEN TRUE
       ELSE a.n * b.d < b.n * a.d
f_le(a, b) == f_lt(a, b) \/ (~is_nan(a) /\ ~is_nan(b) /\ ~f_lt(b, a))

----------------------------------------------------------------------------
(* The step comparison of reportcovid: 7-day averages at steps 0, 7, 14 *)

\* .map(|x| x.new_cases.unwrap_or(0) as f32).sum::<f32>() over a slice
RECURSIVE sum_new_cases(_)
sum_new_cases(w) ==
    IF w = <<>> THEN 0
    ELSE unwrap_or(Head(w).new_cases, 0) + sum_new_cases(Tail(w))

\* the slice rs[start..end] (0-based, end exclusive)
slice(rs, start, end) == SubSeq(rs, start + 1, end)

\* the same over the eight records that end before the last
cases_7_day_avg_wide(rs, last, step) ==
    IF last - 8 - step < 0 THEN index_underflow
    ELSE Ok(Frac(sum_new_cases(slice(rs, last - 8 - step, last - step)), 7))

\* the same, its window reaching the last record
cases_7_day_avg_through_last(rs, last, step) ==
    IF last - 7 - step < 0 THEN index_underflow
    ELSE Ok(Frac(sum_new_cases(slice(rs, last - 6 - step, last - step + 1)), 7))

\* cases_7_day_avg of one step: recs[last - 7 - step..last - step], summed, / 7.0
cases_7_day_avg(rs, last, step) ==
    IF last - 7 - step < 0 THEN index_underflow
    ELSE Ok(Frac(sum_new_cases(slice(rs, last - 7 - step, last - step)), 7))

StepList == <<0, 7, 14>>

\* the loop over [0, 7, 14]: the averages assigned so far, and how it ended
RECURSIVE step_loop(_, _, _, _)
step_loop(rs, last, k, avgs) ==
    IF k > Len(StepList) THEN [avgs |-> avgs, exit |-> Ok("completed")]
    ELSE LET a == cases_7_day_avg(rs, last, StepList[k])
         IN  IF a.ok THEN step_loop(rs, last, k + 1, Append(avgs, a.val))
             ELSE [avgs |-> avgs, exit |-> a]

\* one iteration of "for j in all_jurisdictions" on j's series
step_comparison(rs) ==
    IF Len(rs) = 0 THEN [avgs |-> <<>>, exit |-> index_underflow]
    ELSE step_loop(rs, Len(rs) - 1, 1, <<>>)

\* "if step0 > step7": the line that is printed
rose(avgs) == f_lt(avgs[2], avgs[1])

----------------------------------------------------------------------------
(* printstats *)

unwrap_none == Panic("called Option::unwrap() on a None value")

\* the latest value of a column and the one it is compared with:
\* col[last].unwrap(), and
\* col[last - 1].unwrap_or_else(|| col[last - 2].unwrap())
latest_and_prior(col) ==
    LET last == Len(col) - 1
    IN  IF Len(col) = 0 THEN index_underflow
        ELSE IF col[last + 1] = None THEN unwrap_none
        ELSE IF last - 1 < 0 THEN index_underflow
        ELSE IF col[last] # None
             THEN Ok([latest |-> col[last + 1][1], prior |-> col[last][1]])
        ELSE IF last - 2 < 0 THEN index_underflow
        ELSE IF col[last - 1] = None THEN unwrap_none
        ELSE Ok([latest |-> col[last + 1][1], prior |-> col[last - 1][1]])

\* "cases_7_day_avg as u32": the fraction truncated
as_u32(x) == x.n \div x.d

max(a, b) == IF a >= b THEN a ELSE b

\* [0,1].iter().map(|step| ... cases_7_day_avg as u32).max()
highest_cases_of(rs, last) ==
    LET a0 == cases_7_day_avg(rs, last, 0)
        a1 == cases_7_day_avg(rs, last, 1)
    IN  IF ~a0.ok THEN a0
        ELSE IF ~a1.ok THEN a1
        ELSE Ok(max(as_u32(a0.val), as_u32(a1.val)))

in_range(lo, x, hi) == f_le(Frac(lo, 1), x) /\ f_lt(x, Frac(hi, 1))

\* the match with every band closed on the right instead of the left
risk_level_right_closed(x) ==
    IF f_le(Frac(0, 1), x) /\ f_le(x, Frac(10, 1)) THEN "Low"
    ELSE IF f_lt(Frac(10, 1), x) /\ f_le(x, Frac(50, 1)) THEN "Moderate"
    ELSE IF f_lt(Frac(50, 1), x) /\ f_le(x, Frac(100, 1)) THEN "Substantial"
    ELSE IF f_lt(Frac(100, 1), x) THEN "High"
    ELSE "ERROR"

\* match cases_week_100k { x if (0.0..10.0).contains(&x) => "Low", ... }
risk_level(x) ==
    IF in_range(0, x, 10) THEN "Low"
    ELSE IF in_range(10, x, 50) THEN "Moderate"
    ELSE IF in_range(50, x, 100) THEN "Substantial"
    ELSE IF f_le(Frac(100, 1), x) THEN "High"
    ELSE "ERROR"

\* ((highest_cases * 7) as f32) / ((pop as f32) / 100000.0)
rate_per_100k(highest_cases, pop) ==
    f_div(Frac(highest_cases * 7, 1), f_div(Frac(pop, 1), Frac(100000, 1)))

printstats(rs, icunorm, icunormfree, pop) ==
    LET last == Len(rs) - 1
        h == latest_and_prior([i \in 1..Len(rs) |-> rs[i].covid_hospitalized])
        c == latest_and_prior([i \in 1..Len(rs) |-> rs[i].covid_icu])
        hi == highest_cases_of(rs, last)
        hd == i32_sub(as_i32(h.val.latest), as_i32(h.val.prior))
        id == i32_sub(as_i32(c.val.latest), as_i32(c.val.prior))
        icu_used == u32_add(u32_of(icunorm - icunormfree), c.val.latest)
        icu_pct == u32_mul(icu_used.val, 100)
    IN  IF ~h.ok THEN h
        ELSE IF ~hd.ok THEN hd
        ELSE IF ~c.ok THEN c
        ELSE IF ~id.ok THEN id
        ELSE IF ~icu_used.ok THEN icu_used
        ELSE IF ~icu_pct.ok THEN icu_pct
        ELSE IF ~hi.ok THEN hi
        ELSE Ok([hd |-> hd.val,
                 newh |-> h.val.latest,
                 id |-> id.val,
                 newi |-> c.val.latest,
                 icu_full |-> [n |-> icu_pct.val, d |-> icunorm],
                 highest_cases |-> hi.val,
                 cases_week_100k |->
                    IF pop = None THEN None
                    ELSE Some(rate_per_100k(hi.val, pop[1])),
                 level |->
                    IF pop = None THEN None
                    ELSE Some(risk_level(rate_per_100k(hi.val, pop[1])))])

----------------------------------------------------------------------------
(* plot_jurisdiction: the series handed to the chart *)

\* w.iter().sum::<u32>(): the counts added from the left, acc the sum so far
RECURSIVE sum_u32(_, _)
sum_from(w, next) == IF next.ok THEN sum_u32(Tail(w), next.val) ELSE next
sum_u32(w, acc) ==
    IF w = <<>> THEN Ok(acc) ELSE sum_from(w, u32_add(acc, u32_of(Head(w))))

\* ((sum as f64) / (n as f64)).round() as u32, half away from zero
round_div(sum, n) ==
    LET mid == (sum.hi % n) * Half + sum.lo
        quotient == (sum.hi \div n) * Half + (mid \div n)
    IN  IF 2 * (mid % n) >= n THEN quotient + 1 ELSE quotient

rounded(sum, n) == IF sum.ok THEN Ok(round_div(sum.val, n)) ELSE sum

\* the rounded average of one window, or the panic of its sum
rounded_avg(w) == rounded(sum_u32(w, u32_of(0)), Len(w))

num_windows_of(len) == IF len >= 7 THEN len - 6 ELSE 0

\* casevec.windows(7).map(...): one value per window of seven, or the panic
\* of the first window whose sum overflows
cases7day_of(casevec) ==
    collect(SubSeq([k \in 1..num_windows_of(Len(casevec)) |->
                       rounded_avg(SubSeq(casevec, k, k + 6))],
                   1, num_windows_of(Len(casevec))))

\* the rest of plot_jurisdiction once the three series are computed
plot_series(rs, casevec, windows, hosp_cases, icu_cases) ==
    IF ~windows.ok THEN windows
    ELSE IF Len(windows.val) = 0 THEN index_underflow
    ELSE IF ~hosp_cases.ok THEN hosp_cases
    ELSE IF ~icu_cases.ok THEN icu_cases
    ELSE Ok([casevec |-> casevec,
             cases7day |-> windows.val,
             dates7day |-> [k \in 1..Len(windows.val) |-> rs[k + 6].date],
             latest_cases |-> windows.val[Len(windows.val)],
             hosp_cases |-> hosp_cases.val,
             icu_cases |-> icu_cases.val])

casevec_of(rs) == [i \in 1..(Len(rs) - 1) |-> unwrap_or(rs[i].new_cases, 0)]

plot_jurisdiction(rs) ==
    IF Len(rs) = 0 THEN unwrap_none
    ELSE plot_series(rs, casevec_of(rs), cases7day_of(casevec_of(rs)),
                     cleanup([i \in 1..Len(rs) |-> rs[i].covid_hospitalized]),
                     cleanup([i \in 1..Len(rs) |-> rs[i].covid_icu]))

----------------------------------------------------------------------------
(* analyze, hospitalizations and the loop of reportcovid *)

\* the rest of analyze once the statistics and the two charts are computed
analyzed(jurisdiction, county_records, st, plot, plot_60d) ==
    IF ~st.ok THEN st
    ELSE IF ~plot.ok THEN plot
    ELSE IF Len(county_records) - 60 < 0 THEN index_underflow
    ELSE IF ~plot_60d.ok THEN plot_60d
    ELSE Ok([line |-> "analyze", jurisdiction |-> jurisdiction,
             stats |-> st.val,
             latest_cases |-> plot.val.latest_cases,
             latest_cases_60d |-> plot_60d.val.latest_cases])

analyze_records(jurisdiction, county_records, icunorm, icunormfree, pop) ==
    analyzed(jurisdiction, county_records,
             printstats(county_records, icunorm, icunormfree, Some(pop)),
             plot_jurisdiction(county_records),
             IF Len(county_records) - 60 < 0 THEN index_underflow
             ELSE plot_jurisdiction(slice(county_records, Len(county_records) - 60,
                                          Len(county_records))))

\* analyze(all_records, jurisdiction, .., population): what it prints, or its panic
analyze(joined, jurisdiction, pop) ==
    analyze_records(jurisdiction, county_records_of(joined, jurisdiction),
                    IF jurisdiction = "Pennsylvania" THEN 4200 ELSE 560,
                    IF jurisdiction = "Pennsylvania" THEN 1040 ELSE 180, pop)

cmpname(a, b) == IF a < b THEN "less" ELSE IF a = b THEN "same" ELSE "more"
abs_diff(a, b) == IF a >= b THEN a - b ELSE b - a

\* med_surg_total.unwrap() - med_surg_available.unwrap() of one record; where
\* the u32 difference wraps, the negative number d stands for 2^32 + d
beds_used(r) ==
    IF r.med_surg_total = None \/ r.med_surg_available = None THEN unwrap_none
    ELSE IF r.med_surg_total[1] < r.med_surg_available[1] /\ overflow_checks
         THEN Panic("attempt to subtract with overflow")
    ELSE Ok(r.med_surg_total[1] - r.med_surg_available[1])

\* hospitalizations(all_records): the census line, or its panic
hospitalizations(joined) ==
    LET pa_records == sort_by_date(filter_county(joined, "Pennsylvania"))
        t == Len(pa_records) - 1
    IN  IF Len(pa_records) = 0 THEN index_underflow
        ELSE LET today_used == beds_used(pa_records[t + 1])
             IN  IF ~today_used.ok THEN today_used
                 ELSE IF t - 7 < 0 THEN index_underflow
                 ELSE LET week1_used == beds_used(pa_records[t - 7 + 1])
                      IN  IF ~week1_used.ok THEN week1_used
                          ELSE IF t - 14 < 0 THEN index_underflow
                          ELSE LET week2_used == beds_used(pa_records[t - 14 + 1])
                               IN  IF ~week2_used.ok THEN week2_used
                                   ELSE Ok([line |-> "hospitalizations",
                                            today_used |-> today_used.val,
                                            week1_diff |-> abs_diff(today_used.val, week1_used.val),
                                            week1_change |-> cmpname(today_used.val, week1_used.val),
                                            week2_diff |-> abs_diff(today_used.val, week2_used.val),
                                            week2_change |-> cmpname(today_used.val, week2_used.val)])

\* all_records.iter().map(|r| &r.county).unique(): first appearances, in order
unique_counties(joined) ==
    LET firsts == {i \in 1..Len(joined) :
                      \A j \in 1..(i - 1) : joined[j].county # joined[i].county}
    IN  [k \in 1..Cardinality(firsts) |->
            joined[CHOOSE i \in firsts : Cardinality({j \in firsts : j <= i}) = k].county]

----------------------------------------------------------------------------
(* dayreport: the weekday decomposition *)

num_windows == 16
analysis_length == num_windows * 7

\* the contribution of one record without the division by num_windows
day_share_of_week(new_cases, tot_cases) ==
    f_div(Frac(unwrap_or(new_cases, 0), 1), Frac(tot_cases, 1))

\* (w.new_cases.unwrap_or(0) as f32) / (tot_cases as f32 * num_windows as f32)
day_share(new_cases, tot_cases) ==
    f_div(Frac(unwrap_or(new_cases, 0), 1), Frac(tot_cases * num_windows, 1))

\* what record k (1-based) of the window adds, if its weekday is wd: it lies
\* in the chunk that starts at 7 * ((k - 1) div 7) + 1
day_term(window, k, wd) ==
    LET first == 7 * ((k - 1) \div 7) + 1
        tot_cases == sum_new_cases(SubSeq(window, first, first + 6))
    IN  IF num_days_from_monday(window[k].date) = wd
        THEN Some(day_share(window[k].new_cases, tot_cases))
        ELSE None

\* the sum of what records lo..hi of the window add to dayper[wd]
RECURSIVE day_sum(_, _, _, _)
day_sum(window, wd, lo, hi) ==
    IF lo > hi THEN None
    ELSE IF lo = hi THEN day_term(window, lo, wd)
    ELSE LET mid == (lo + hi) \div 2
             a == day_sum(window, wd, lo, mid)
             b == day_sum(window, wd, mid + 1, hi)
         IN  IF a = None THEN b
             ELSE IF b = None THEN a
             ELSE Some(f_add(a[1], b[1]))

\* .chunks(7).for_each(...): dayper, from seven zeros
day_accumulate(window) ==
    [i \in 1..7 |->
        LET t == day_sum(window, i - 1, 1, Len(window))
        IN  IF t = None THEN Frac(0, 1) ELSE f_add(Frac(0, 1), t[1])]

\* dayreport on its all_records, Pennsylvania's rows sorted by date
dayper_of(rs) ==
    LET nr == Len(rs)
    IN  IF nr - analysis_length - 1 < 0 THEN index_underflow
        ELSE Ok(day_accumulate(slice(rs, nr - analysis_length - 1, nr - 1)))

----------------------------------------------------------------------------
(* Bounds and input sets *)

\* longest cases table and hospital table of the join's specification
\* a hospitalized / ICU count of a row
Count(n) == Some(u32_of(n))

MaxCaseRows == 2
MaxHospRows == 2
\* longest argument of cleanup
MaxVals == 6

SeqsUpTo(S, n) == UNION {[1..k -> S] : k \in 0..n}

JoinCounties == {"X", "X+1"}
JoinDates == {Date(2345, 1, 1), Date(12345, 1, 1)}
JoinCounts == {None, Some(5), Some(7)}
JoinCaseRows ==
    {CasesRecord(c, d, n) : c \in JoinCounties, d \in JoinDates, n \in JoinCounts}
JoinHospRows ==
    {HospitalRecord(c, d, Count(3), Count(1), Some(2), Some(9)) :
        c \in JoinCounties, d \in JoinDates}

CleanupVals == {None} \cup {Some(u32_of(n)) : n \in {0, 4, 8}} \cup {Some(u32_max)}

\* longest series of the step comparison's specification, largest constant count
MaxSeries == 23
MaxConst == 3

\* n consecutive days from d on
dates_from(d, n) == [i \in 1..n |-> add_days(d, i - 1)]

\* the new-case count of observation i (1-based) of a series of len observations
CountAt(p, len, i) ==
    CASE p.kind = "const" -> Some(p.v)
      [] p.kind = "ramp" -> Some(i)
      [] p.kind = "tail_ramp" -> Some(((i + 7 * len - len) % 7) + 1)
      [] p.kind = "gaps" -> IF i % 3 = 0 THEN None ELSE Some(i)
      [] p.kind = "fall" -> Some(len - i)
      [] p.kind = "huge" -> Some(700000000 + i)
      [] p.kind = "spike" -> IF i = len THEN Some(99) ELSE Some(p.v)

\* the hospitalized / ICU count of observation i: which of the last three
\* observations lack it
HospAt(h, len, i, x) ==
    CASE h \in {"full", "no_beds"} -> Count(x + i)
      [] h = "no_latest" -> IF i = len THEN None ELSE Count(x + i)
      [] h = "no_prior" -> IF i = len - 1 THEN None ELSE Count(x + 2 * i)
      [] h = "no_prior2" -> IF i \in {len - 1, len - 2} THEN None ELSE Count(x + i)
      [] h = "latest_2_31" -> IF i = len THEN Some(U32(Half \div 2, 0)) ELSE Count(x + i)
      [] h = "latest_max" -> IF i = len THEN Some(u32_max) ELSE Count(x + i)
HospPatterns ==
    {"full", "no_latest", "no_prior", "no_prior2", "latest_2_31", "latest_max"}
\* the ICU column has the pattern of the hospitalized one, but no count of
\* 2^31 or more
IcuPattern(h) == IF h \in {"latest_2_31", "latest_max"} THEN "full" ELSE h
\* and the latest observation without its count of staffed beds
RunHospPatterns == HospPatterns \cup {"no_beds"}

\* one jurisdiction's rows after the join, one per consecutive day from start
SeriesH(county, start, len, p, h) ==
    LET ds == dates_from(start, len)
    IN  [i \in 1..len |->
            [HospitalRecord(county, ds[i], HospAt(h, len, i, 30),
                            HospAt(IcuPattern(h), len, i, 5),
                            Some(2), IF h = "no_beds" /\ i = len THEN None ELSE Some(9))
                EXCEPT !.new_cases = CountAt(p, len, i)]]
Series(county, start, len, p) == SeriesH(county, start, len, p, "full")

\* printstats' specification: longest series, largest constant count
MaxStatsLen == 15
MaxRate == 110
StatsPatterns ==
    {[kind |-> "const", v |-> v] : v \in 0..MaxRate}
    \cup {[kind |-> k, v |-> 0] : k \in {"ramp", "gaps", "fall"}}
\* the populations reportcovid passes, and round ones that put rates on the bands
Populations == {1213570, 12964056, 1585480}
StatsPopulations == {None} \cup {Some(x) : x \in Populations \cup {0, 700000}}
\* the case pattern and the population of a printstats call: the rates 9.99
\* and 49.999 need a large population
StatsCalls ==
    (StatsPatterns \X StatsPopulations)
    \cup {<<[kind |-> "const", v |-> 999], Some(70000000)>>,
          <<[kind |-> "const", v |-> 49999], Some(700000000)>>}

\* the calls whose series take every pattern of the hospital columns
StatsHospCalls == {c \in StatsCalls : c[1].kind # "const" \/ c[1].v <= MaxConst}

\* the series builder's specification: the merged collection holds up to
\* MaxMerged rows of two spellings of a county on three days, and the count
\* tells rows of one county and day apart
MaxMerged == 3
MergedRows ==
    {[HospitalRecord(c, add_days(Date(2020, 10, 1), k), Count(30), Count(5),
                     Some(2), Some(9)) EXCEPT !.new_cases = Some(n)] :
        c \in {"Erie", "erie"}, k \in 0..2, n \in 1..2}
Targets == {"Erie", "erie", "York"}

\* plot_jurisdiction's specification: longest series
MaxPlotLen == 12
PlotPatterns ==
    {[kind |-> "const", v |-> v] : v \in 0..MaxConst}
    \cup {[kind |-> "spike", v |-> v] : v \in 0..MaxConst}
    \cup {[kind |-> k, v |-> 0] : k \in {"ramp", "gaps", "fall", "huge"}}

\* dayreport's specification: longest Pennsylvania series, largest constant count
MaxDayLen == 114
MaxDayConst == 2
\* the weekdays the series starts on: Thursday and the MaxDayStart days after it
MaxDayStart == 3
DayLens == {0} \cup (112..MaxDayLen)
DayPatterns ==
    {[kind |-> k, v |-> v, week |-> 0] :
        k \in {"const", "monday_double", "last_spike"}, v \in 1..MaxDayConst}
    \cup {[kind |-> k, v |-> 1, week |-> w] :
            k \in {"zero_week", "none_week"}, w \in {1, num_windows}}
    \cup {[kind |-> "const", v |-> 0, week |-> 0]}

\* the new-case count of observation i of nr, dated d; week w of the window
\* that dayreport analyses holds observations nr-113+7(w-1)+1 .. nr-113+7w
DayCount(p, nr, i, d) ==
    LET in_week == /\ nr - 113 + 7 * (p.week - 1) < i
                   /\ i <= nr - 113 + 7 * p.week
    IN  CASE p.kind = "const" -> Some(p.v)
          [] p.kind = "monday_double" ->
                IF num_days_from_monday(d) = 0 THEN Some(2 * p.v) ELSE Some(p.v)
          [] p.kind = "last_spike" -> IF i = nr THEN Some(50) ELSE Some(p.v)
          [] p.kind = "zero_week" -> IF in_week THEN Some(0) ELSE Some(p.v)
          [] p.kind = "none_week" -> IF in_week THEN None ELSE Some(p.v)

\* the cases file: Pennsylvania's rows, oldest first, then two of Allegheny
DayCases(start, nr, p) ==
    LET ds == dates_from(start, nr)
    IN  [i \in 1..nr |-> CasesRecord("Pennsylvania", ds[i], DayCount(p, nr, i, ds[i]))]
        \o <<CasesRecord("Allegheny", start, Some(40)),
              CasesRecord("Allegheny", succ_date(start), Some(41))>>

\* the hospital file: newest first, Allegheny's rows among Pennsylvania's
DayHosps(start, nr) ==
    LET ds == dates_from(start, nr)
    IN  <<HospitalRecord("Allegheny", succ_date(start), Count(3), Count(1), Some(2), Some(9))>>
        \o [i \in 1..nr |->
              HospitalRecord("Pennsylvania", ds[nr + 1 - i], Count(30), Count(5), Some(2), Some(9))]
        \o <<HospitalRecord("Allegheny", start, Count(3), Count(1), Some(2), Some(9))>>

\* the report run: the length of a complete series, and the lengths the series
\* of the jurisdiction under study takes
MaxRunLen == 61
RunLens == {0, 9, 21, 59, MaxRunLen}
\* the order in which the jurisdictions first appear in the hospital file
RunJurisdictions == <<"Erie", "Pennsylvania", "Allegheny", "Philadelphia">>
RunStart == Date(2022, 3, 1)

reversed(rs) == [i \in 1..Len(rs) |-> rs[Len(rs) + 1 - i]]

\* the series of jurisdiction k of a run in which jurisdiction subject has len
\* observations with hospital pattern h, and every other one is complete
RunSeries(k, subject, len, h) ==
    IF k = subject
    THEN SeriesH(RunJurisdictions[k], RunStart, len, [kind |-> "ramp", v |-> 0], h)
    ELSE SeriesH(RunJurisdictions[k], RunStart, MaxRunLen,
                 [kind |-> "const", v |-> k], "full")

\* the hospital file: each jurisdiction's rows, newest first, no case counts
RunHosps(subject, len, h) ==
    LET file(k) == LET rs == reversed(RunSeries(k, subject, len, h))
                   IN  [i \in 1..Len(rs) |-> [rs[i] EXCEPT !.new_cases = None]]
    IN  file(1) \o file(2) \o file(3) \o file(4)

\* the cases file: each jurisdiction's rows, oldest first
RunCases(subject, len, h) ==
    LET file(k) == LET rs == RunSeries(k, subject, len, h)
                   IN  [i \in 1..Len(rs) |->
                          CasesRecord(rs[i].county, rs[i].date, rs[i].new_cases)]
    IN  file(1) \o file(2) \o file(3) \o file(4)

StepPatterns ==
    {[kind |-> "const", v |-> v] : v \in 0..MaxConst}
    \cup {[kind |-> "spike", v |-> v] : v \in 0..MaxConst}
    \cup {[kind |-> k, v |-> 0] : k \in {"ramp", "tail_ramp", "gaps"}}

----------------------------------------------------------------------------
(* Specifications *)

NoRun ==
    /\ files_ok = TRUE
    /\ case_records = <<>>
    /\ hosp_records = <<>>
    /\ all_records = <<>>
    /\ all_jurisdictions = <<>>
    /\ report = <<>>
NoCleanup == vals = <<>> /\ result = <<>>
NoSteps == recs = <<>> /\ steps = <<>>
NoStats == population = None /\ stats = <<>>
NoDay == dayper = <<>>

runVars == <<files_ok, case_records, hosp_records, all_records, all_jurisdictions,
             report>>
cleanupVars == <<vals, result>>
stepVars == <<recs, steps>>
statsVars == <<population, stats>>

(* get_all_records on its own *)
JoinInit ==
    /\ pc = "get_all_records"
    /\ overflow_checks = TRUE
    /\ files_ok \in BOOLEAN
    /\ case_records \in SeqsUpTo(JoinCaseRows, MaxCaseRows)
    /\ hosp_records \in SeqsUpTo(JoinHospRows, MaxHospRows)
    /\ all_records = <<>>
    /\ all_jurisdictions = <<>>
    /\ report = <<>>
    /\ NoCleanup /\ NoSteps /\ NoStats /\ NoDay

GetAllRecords ==
    /\ pc = "get_all_records"
    /\ LET got == get_all_records
       IN  IF got.ok
           THEN all_records' = got.val /\ pc' = "joined"
           ELSE all_records' = all_records /\ pc' = "err"
    /\ UNCHANGED <<overflow_checks, files_ok, case_records, hosp_records,
                   all_jurisdictions, report, cleanupVars, stepVars, statsVars, dayper>>

SpecJoin == JoinInit /\ [][GetAllRecords]_vars

(* cleanup on its own *)
CleanupInit ==
    /\ pc = "cleanup"
    /\ overflow_checks \in BOOLEAN
    /\ vals \in SeqsUpTo(CleanupVals, MaxVals)
    /\ result = <<>>
    /\ NoRun /\ NoSteps /\ NoStats /\ NoDay

Cleanup ==
    /\ pc = "cleanup"
    /\ result' = cleanup(vals)
    /\ pc' = "cleaned"
    /\ UNCHANGED <<overflow_checks, runVars, vals, stepVars, statsVars, dayper>>

SpecCleanup == CleanupInit /\ [][Cleanup]_vars

(* the step comparison on its own *)
StepInit ==
    /\ pc = "step_comparison"
    /\ overflow_checks \in BOOLEAN
    /\ \E len \in 0..MaxSeries, p \in StepPatterns :
          recs = Series("Erie", Date(2020, 10, 1), len, p)
    /\ steps = <<>>
    /\ NoRun /\ NoCleanup /\ NoStats /\ NoDay

StepComparison ==
    /\ pc = "step_comparison"
    /\ steps' = step_comparison(recs)
    /\ pc' = "stepped"
    /\ UNCHANGED <<overflow_checks, runVars, cleanupVars, recs, statsVars, dayper>>

SpecStep == StepInit /\ [][StepComparison]_vars

(* printstats on its own *)
StatsInit ==
    /\ pc = "printstats"
    /\ overflow_checks \in BOOLEAN
    /\ \E len \in 0..MaxStatsLen, c \in StatsCalls, h \in HospPatterns :
          /\ h = "full" \/ c \in StatsHospCalls
          /\ recs = SeriesH("Allegheny", Date(2020, 10, 1), len, c[1], h)
          /\ population = c[2]
    /\ stats = <<>>
    /\ steps = <<>>
    /\ NoRun /\ NoCleanup /\ NoDay

Printstats ==
    /\ pc = "printstats"
    /\ stats' = printstats(recs, 560, 180, population)
    /\ pc' = "printed"
    /\ UNCHANGED <<overflow_checks, runVars, cleanupVars, stepVars, population, dayper>>

SpecStats == StatsInit /\ [][Printstats]_vars

(* dayreport on its own *)
DayInit ==
    /\ pc = "dayreport"
    /\ overflow_checks \in BOOLEAN
    /\ files_ok \in BOOLEAN
    /\ \E off \in 0..MaxDayStart, nr \in DayLens, p \in DayPatterns :
          LET start == add_days(Date(2020, 10, 1), off)
          IN  /\ case_records = DayCases(start, nr, p)
              /\ hosp_records = DayHosps(start, nr)
    /\ all_records = <<>>
    /\ all_jurisdictions = <<>>
    /\ report = <<>>
    /\ dayper = <<>>
    /\ NoCleanup /\ NoSteps /\ NoStats

DayReport ==
    /\ pc = "dayreport"
    /\ LET got == get_all_records
       IN  IF got.ok
           THEN LET rs == county_records_of(got.val, "Pennsylvania")
                IN  all_records' = rs /\ dayper' = dayper_of(rs)
           ELSE all_records' = all_records /\ dayper' = got
    /\ pc' = "dayreported"
    /\ UNCHANGED <<overflow_checks, files_ok, case_records, hosp_records,
                   all_jurisdictions, report, cleanupVars, stepVars, statsVars>>

SpecDay == DayInit /\ [][DayReport]_vars

(* the series of one jurisdiction on its own *)
SeriesInit ==
    /\ pc = "county_records"
    /\ overflow_checks = TRUE
    /\ files_ok = TRUE
    /\ case_records = <<>>
    /\ hosp_records = <<>>
    /\ all_records \in SeqsUpTo(MergedRows, MaxMerged)
    /\ \E j \in Targets : all_jurisdictions = <<j>>
    /\ report = <<>>
    /\ NoCleanup /\ NoSteps /\ NoStats /\ NoDay

\* the series of the jurisdiction the loop is at: filter, sorted_by_key
CountyRecords ==
    /\ pc = "county_records"
    /\ recs' = county_records_of(all_records, Head(all_jurisdictions))
    /\ pc' = "sorted"
    /\ UNCHANGED <<overflow_checks, runVars, cleanupVars, steps, statsVars, dayper>>

SpecSeries == SeriesInit /\ [][CountyRecords]_vars

(* plot_jurisdiction on its own *)
PlotInit ==
    /\ pc = "plot_jurisdiction"
    /\ overflow_checks \in BOOLEAN
    /\ \E len \in 0..MaxPlotLen, p \in PlotPatterns, h \in {"full", "no_prior"} :
          recs = SeriesH("Erie", Date(2020, 10, 1), len, p, h)
    /\ steps = <<>>
    /\ NoRun /\ NoCleanup /\ NoStats /\ NoDay

\* the series the chart is drawn from, or the panic
PlotJurisdiction ==
    /\ pc = "plot_jurisdiction"
    /\ LET out == plot_jurisdiction(recs)
       IN  report' = IF out.ok THEN <<[line |-> "chart", series |-> out.val]>>
                     ELSE <<[line |-> "panic", why |-> out.why]>>
    /\ pc' = "plotted"
    /\ UNCHANGED <<overflow_checks, files_ok, case_records, hosp_records, all_records,
                   all_jurisdictions, cleanupVars, stepVars, statsVars, dayper>>

SpecPlot == PlotInit /\ [][PlotJurisdiction]_vars

(* the report run: reportcovid from its first statement to its return *)
Init ==
    /\ pc = "reportcovid"
    /\ overflow_checks \in BOOLEAN
    /\ files_ok \in BOOLEAN
    /\ \E subject \in 1..Len(RunJurisdictions), len \in RunLens, h \in RunHospPatterns :
          /\ case_records = RunCases(subject, len, h)
          /\ hosp_records = RunHosps(subject, len, h)
    /\ all_records = <<>>
    /\ all_jurisdictions = <<>>
    /\ report = <<>>
    /\ NoCleanup /\ NoSteps /\ NoStats /\ NoDay

\* count_case_delta three times, then get_all_records, each with "?"
ReadInputs ==
    /\ pc = "reportcovid"
    /\ LET got == get_all_records
       IN  IF got.ok
           THEN all_records' = got.val /\ pc' = "analyze_allegheny"
           ELSE all_records' = all_records /\ pc' = "returned_err"
    /\ UNCHANGED <<overflow_checks, files_ok, case_records, hosp_records,
                   all_jurisdictions, report, cleanupVars, stepVars, statsVars, dayper>>

\* one call of analyze: its output is printed, or its panic ends the process
Analyze(at, jurisdiction, pop, next) ==
    /\ pc = at
    /\ LET out == analyze(all_records, jurisdiction, pop)
       IN  IF out.ok
           THEN report' = Append(report, out.val) /\ pc' = next
           ELSE report' = Append(report, [line |-> "panic", why |-> out.why])
                /\ pc' = "panicked"
    /\ UNCHANGED <<overflow_checks, files_ok, case_records, hosp_records, all_records,
                   all_jurisdictions, cleanupVars, stepVars, statsVars, dayper>>

AnalyzeAllegheny ==
    Analyze("analyze_allegheny", "Allegheny", 1213570, "analyze_pennsylvania")
AnalyzePennsylvania ==
    Analyze("analyze_pennsylvania", "Pennsylvania", 12964056, "analyze_extra_county")
AnalyzeExtraCounty ==
    Analyze("analyze_extra_county", "Philadelphia", 1585480, "hospitalizations")

\* hospitalizations(&all_records), then the iterator of the loop is built
Hospitalizations ==
    /\ pc = "hospitalizations"
    /\ LET out == hospitalizations(all_records)
       IN  IF out.ok
           THEN /\ report' = Append(report, out.val)
                /\ all_jurisdictions' = unique_counties(all_records)
                /\ pc' = "for_jurisdictions"
           ELSE /\ report' = Append(report, [line |-> "panic", why |-> out.why])
                /\ all_jurisdictions' = all_jurisdictions
                /\ pc' = "panicked"
    /\ UNCHANGED <<overflow_checks, files_ok, case_records, hosp_records, all_records,
                   cleanupVars, stepVars, statsVars, dayper>>

\* one iteration of "for j in all_jurisdictions"
ForJurisdiction ==
    /\ pc = "for_jurisdictions"
    /\ all_jurisdictions # <<>>
    /\ LET j == Head(all_jurisdictions)
           rs == county_records_of(all_records, j)
           out == step_comparison(rs)
       IN  /\ recs' = rs
           /\ steps' = out
           /\ all_jurisdictions' = Tail(all_jurisdictions)
           /\ IF ~out.exit.ok
              THEN /\ report' = Append(report, [line |-> "panic", why |-> out.exit.why])
                   /\ pc' = "panicked"
              ELSE /\ pc' = pc
                   /\ report' = IF rose(out.avgs)
                                THEN Append(report,
                                            [line |-> "rose", jurisdiction |-> j,
                                             step7 |-> out.avgs[2], step0 |-> out.avgs[1],
                                             step14 |-> out.avgs[3]])
                                ELSE report
    /\ UNCHANGED <<overflow_checks, files_ok, case_records, hosp_records, all_records,
                   cleanupVars, statsVars, dayper>>

\* the loop is exhausted: Ok(())
Return ==
    /\ pc = "for_jurisdictions"
    /\ all_jurisdictions = <<>>
    /\ pc' = "returned_ok"
    /\ UNCHANGED <<overflow_checks, runVars, cleanupVars, stepVars, statsVars, dayper>>

Next ==
    \/ ReadInputs
    \/ AnalyzeAllegheny
    \/ AnalyzePennsylvania
    \/ AnalyzeExtraCounty
    \/ Hospitalizations
    \/ ForJurisdiction
    \/ Return

Spec == Init /\ [][Next]_vars

----------------------------------------------------------------------------
(* Claims *)

\* the case rows that carry the (jurisdiction, date) of hospital row h
SameJurisdictionAndDate(h) ==
    {j \in DOMAIN case_records :
        case_records[j].county = h.county /\ case_records[j].date = h.date}
LastOf(S) == CHOOSE j \in S : \A k \in S : k <= j

\* C3: after the join every capacity row carries the new-case count of the
\* last case row with its (jurisdiction, date), and no count when there is
\* no such case row.
C3_JoinByJurisdictionAndDate ==
    pc = "joined" =>
        /\ Len(all_records) = Len(hosp_records)
        /\ \A i \in DOMAIN all_records :
              LET m == SameJurisdictionAndDate(hosp_records[i])
              IN  all_records[i].new_cases =
                    (IF m = {} THEN None ELSE case_records[LastOf(m)].new_cases)

\* floor((a + b) / 2) of two u32, computed without forming the sum
MeanOf(a, b) ==
    LET odd(x) == x.lo % 2
        m == u32_add(u32_half(a), u32_half(b)).val
    IN  IF odd(a) = 1 /\ odd(b) = 1
        THEN IF m.lo + 1 = Half THEN U32(m.hi + 1, 0) ELSE U32(m.hi, m.lo + 1)
        ELSE m

\* what cleanup is to return at position i of v, from the raw input alone
Filled(v, i) ==
    IF v[i] # None THEN v[i][1]
    ELSE IF i = 1 \/ i = Len(v) THEN u32_of(0)
    ELSE MeanOf(u32_unwrap_or_0(v[i - 1]), u32_unwrap_or_0(v[i + 1]))

\* C4: cleanup returns a sequence of the input's length holding the input
\* value where present, 0 for a missing first or last position, and the
\* floor of the mean of the raw neighbours (a missing one counts 0) for a
\* missing interior position; an all-present input comes back unchanged.
C4_CleanupFillsFromRawNeighbours ==
    pc = "cleaned" =>
        /\ result.ok
        /\ Len(result.val) = Len(vals)
        /\ \A i \in 1..Len(vals) : result.val[i] = Filled(vals, i)
        /\ (\A i \in 1..Len(vals) : vals[i] # None) =>
              result.val = [i \in 1..Len(vals) |-> vals[i][1]]

C5_Input ==
    <<None, Some(u32_of(4)), None, None, Some(u32_of(8)), None>>
U32s(ns) == [i \in 1..Len(ns) |-> u32_of(ns[i])]

\* C5 as stated: cleanup([None, 4, None, None, 8, None]) = [0, 4, 2, 6, 8, 0]
C5_CleanupExample ==
    (pc = "cleaned" /\ vals = C5_Input) => result = Ok(U32s(<<0, 4, 2, 6, 8, 0>>))

\* C5 amended: cleanup([None, 4, None, None, 8, None]) = [0, 4, 2, 4, 8, 0]; the
\* fourth position is the floor of (0 + 8) / 2, its left neighbour being missing.
C5_CleanupExampleAmended ==
    (pc = "cleaned" /\ vals = C5_Input) => result = Ok(U32s(<<0, 4, 2, 4, 8, 0>>))

\* cleanup has run on the example's input and returned six values
C5_Witness == pc = "cleaned" /\ vals = C5_Input /\ result.ok /\ Len(result.val) = 6

\* the jurisdictions reportcovid analyzes, and those whose output was printed
Analyzed == {"Allegheny", "Pennsylvania", "Philadelphia"}
HasOutput(j) ==
    \E i \in 1..Len(report) :
        report[i].line = "analyze" /\ report[i].jurisdiction = j

\* C2: a run whose inputs were read is not aborted by the failure of one
\* jurisdiction's aggregation: it returns, and at most the one failing
\* jurisdiction is left without its analysis.
C2_FailureDoesNotAbortRun ==
    /\ pc # "panicked"
    /\ pc = "returned_ok" =>
          Cardinality({j \in Analyzed : ~HasOutput(j)}) <= 1

InsufficientHistory == Panic("InsufficientHistory")

\* C1: a series of fewer than 22 observations ends the step comparison in
\* InsufficientHistory, raised before any position is indexed.
C1_ShortSeriesRaisesInsufficientHistory ==
    (pc = "stepped" /\ Len(recs) < 22) =>
        steps.exit = InsufficientHistory /\ steps.avgs = <<>>

\* the new-case count at 0-based position i, a missing one taken as 0
CountAtPos(rs, i) == IF rs[i + 1].new_cases = None THEN 0 ELSE rs[i + 1].new_cases[1]
RECURSIVE SumOver(_, _)
SumOver(rs, P) ==
    IF P = {} THEN 0
    ELSE LET i == CHOOSE x \in P : TRUE
         IN  CountAtPos(rs, i) + SumOver(rs, P \ {i})
\* the positions last-7-step .. last-step-1
StepPositions(last, step) == {i \in 0..last : last - 7 - step <= i /\ i <= last - step - 1}

\* the new-case counts of the n observations before the final one
Preceding(rs, n) == [i \in 1..n |-> rs[Len(rs) - 1 - n + i].new_cases]

\* C6 as stated: the 7-element series 1..7 has the step-0 average 4.0, and a
\* 14-element series of constant count v has step-0 and step-7 averages v.
C6_SevenAndFourteenElements ==
    pc = "stepped" =>
        /\ (Len(recs) = 7 /\ \A i \in 1..7 : recs[i].new_cases = Some(i)) =>
              /\ Len(steps.avgs) >= 1
              /\ steps.avgs[1].n = 4 * steps.avgs[1].d
        /\ \A v \in 0..MaxConst :
              (Len(recs) = 14 /\ \A i \in 1..14 : recs[i].new_cases = Some(v)) =>
                  /\ Len(steps.avgs) >= 2
                  /\ steps.avgs[1].n = v * steps.avgs[1].d
                  /\ steps.avgs[2].n = v * steps.avgs[2].d

\* C6 amended: with the counts 1..7 in the seven observations before the
\* final one the step-0 average is 4.0; with the constant count v in the 14
\* observations before the final one the step-0 and step-7 averages are v.
C6_WindowsBeforeFinalObservation ==
    pc = "stepped" =>
        /\ (Len(recs) >= 8 /\ Preceding(recs, 7) = [i \in 1..7 |-> Some(i)]) =>
              /\ Len(steps.avgs) >= 1
              /\ steps.avgs[1].d > 0
              /\ steps.avgs[1].n = 4 * steps.avgs[1].d
        /\ \A v \in 0..MaxConst :
              (Len(recs) >= 15 /\ Preceding(recs, 14) = [i \in 1..14 |-> Some(v)]) =>
                  /\ Len(steps.avgs) >= 2
                  /\ steps.avgs[1].d > 0 /\ steps.avgs[2].d > 0
                  /\ steps.avgs[1].n = v * steps.avgs[1].d
                  /\ steps.avgs[2].n = v * steps.avgs[2].d

\* a completed comparison of a constant series whose final count differs
C6_Witness ==
    /\ pc = "stepped"
    /\ steps.exit.ok
    /\ Preceding(recs, 14) = [i \in 1..14 |-> Some(2)]
    /\ recs[Len(recs)].new_cases = Some(99)
    /\ steps.avgs[1] = Frac(14, 7)

\* C10: with at least 7 + step + 1 observations the step average is the sum
\* of the counts at the seven positions last-7-step .. last-step-1 over 7;
\* the final observation is in no window, and the windows do not overlap.
C10_StepWindowPositions ==
    pc = "stepped" =>
        LET last == Len(recs) - 1
        IN  \A k \in 1..3 :
              LET step == 7 * (k - 1)
              IN  Len(recs) >= 7 + step + 1 =>
                    /\ Len(steps.avgs) >= k
                    /\ steps.avgs[k].d = 7
                    /\ steps.avgs[k].n = SumOver(recs, StepPositions(last, step))
                    /\ Cardinality(StepPositions(last, step)) = 7
                    /\ last \notin StepPositions(last, step)
                    /\ \A k2 \in 1..3 : k2 # k =>
                          StepPositions(last, step)
                            \cap StepPositions(last, 7 * (k2 - 1)) = {}
                    /\ step_comparison(
                          [recs EXCEPT ![Len(recs)].new_cases = Some(1000)]) = steps

\* a completed comparison whose three averages differ from each other
C10_Witness ==
    /\ pc = "stepped"
    /\ Len(recs) >= 22
    /\ steps.exit.ok
    /\ recs[Len(recs)].new_cases # None
    /\ steps.avgs[1].n > steps.avgs[2].n
    /\ steps.avgs[2].n > steps.avgs[3].n

\* the band of the rate n/d (d > 0), by its two bounds
Band(n, d) ==
    IF 0 <= n /\ n < 10 * d THEN "Low"
    ELSE IF 10 * d <= n /\ n < 50 * d THEN "Moderate"
    ELSE IF 50 * d <= n /\ n < 100 * d THEN "Substantial"
    ELSE IF 100 * d <= n THEN "High"
    ELSE "none"

\* C7: with a known population a non-negative rate gets the level of its
\* left-closed band: [0,10) Low, [10,50) Moderate, [50,100) Substantial,
\* [100,oo) High; 9.99 is Low, 10.0 and 49.999 are Moderate, 100.0 is High,
\* and the level is never "ERROR".
C7_RiskBands ==
    (pc = "printed" /\ stats.ok /\ population # None) =>
        LET x == stats.val.cases_week_100k[1]
            l == stats.val.level[1]
        IN  /\ x.d > 0 =>
                /\ x.n >= 0
                /\ l = Band(x.n, x.d)
                /\ l \in {"Low", "Moderate", "Substantial", "High"}
                /\ x = Frac(999, 100) => l = "Low"
                /\ x = Frac(10, 1) => l = "Moderate"
                /\ x = Frac(49999, 1000) => l = "Moderate"
                /\ x = Frac(100, 1) => l = "High"
            /\ x = Inf => l = "High"

\* a run that classified the rate 10.0
C7_Witness ==
    /\ pc = "printed" /\ stats.ok /\ population # None
    /\ stats.val.cases_week_100k = Some(Frac(10, 1))
    /\ stats.val.level = Some("Moderate")

\* the 7-day average of the window primitive at a step, from the positions
StepAvg(rs, step) == Frac(SumOver(rs, StepPositions(Len(rs) - 1, step)), 7)
\* the sum of the seven counts behind the larger of two such averages
LargerSum(a, b) == IF a.n >= b.n THEN a.n ELSE b.n

\* C11: with a known population the rate that printstats classifies is
\* M * 7 / (population / 100000), M being the larger of the untruncated
\* step-0 and step-7 averages of the series.
C11_RateFromStep0AndStep7 ==
    (pc = "printed" /\ stats.ok /\ population # None /\ Len(recs) >= 15) =>
        stats.val.cases_week_100k =
            Some(f_div(Frac(LargerSum(StepAvg(recs, 0), StepAvg(recs, 7)), 1),
                       f_div(Frac(population[1], 1), Frac(100000, 1))))

\* |d| of an i32, as a u32
Magnitude(d) ==
    IF d >= 0 THEN u32_of(d)
    ELSE IF d = (0 - MaxI32) - 1 THEN U32(Half \div 2, 0)
    ELSE u32_of(0 - d)
\* a + m of two u32, not wrapped: hi holds what exceeds 16 bits
ExactSum(a, m) ==
    LET lo == a.lo + m.lo
    IN  [hi |-> a.hi + m.hi + (lo \div Half), lo |-> lo % Half]
\* d = a - b over the integers, a and b being u32
IsDifference(d, a, b) ==
    IF d >= 0 THEN ExactSum(b, Magnitude(d)) = a ELSE ExactSum(a, Magnitude(d)) = b

\* the value the claim compares the latest value of a column with: the one
\* before it when present, otherwise the one two positions before it
PriorOf(col) ==
    LET n == Len(col)
    IN  IF col[n - 1] # None THEN col[n - 1] ELSE col[n - 2]
HospitalizedOf(rs) == [i \in 1..Len(rs) |-> rs[i].covid_hospitalized]
IcuOf(rs) == [i \in 1..Len(rs) |-> rs[i].covid_icu]

\* C12: the reported hospitalized and ICU deltas are latest minus prior, the
\* prior being the preceding observation's value when present and otherwise
\* the value two positions before the latest; no other position is read.
C12_DeltaAgainstPriorOrFallback ==
    (pc = "printed" /\ stats.ok) =>
        /\ Len(recs) >= 2
        /\ PriorOf(HospitalizedOf(recs)) # None
        /\ PriorOf(IcuOf(recs)) # None
        /\ IsDifference(stats.val.hd, recs[Len(recs)].covid_hospitalized[1],
                        PriorOf(HospitalizedOf(recs))[1])
        /\ IsDifference(stats.val.id, recs[Len(recs)].covid_icu[1],
                        PriorOf(IcuOf(recs))[1])

\* the positions of the merged collection that hold a row of the target
OfTarget == {i \in 1..Len(all_records) : all_records[i].county = Head(all_jurisdictions)}
\* how often row r occurs in a sequence
Occurrences(rs, r) == Cardinality({i \in 1..Len(rs) : rs[i] = r})

\* C13: the series holds exactly the observations of the target jurisdiction
\* (its string matched exactly), is strictly increasing by date, so holds at
\* most one observation per date, and keeps the input order of equal dates.
C13_SeriesExactSortedUnique ==
    pc = "sorted" =>
        /\ Len(recs) = Cardinality(OfTarget)
        /\ \A i \in OfTarget :
              Occurrences(recs, all_records[i])
                = Cardinality({k \in OfTarget : all_records[k] = all_records[i]})
        /\ \A i \in 1..Len(recs) : recs[i].county = Head(all_jurisdictions)
        /\ \A i \in 1..(Len(recs) - 1) :
              num_days_from_ce(recs[i].date) < num_days_from_ce(recs[i + 1].date)
        /\ \A i, k \in OfTarget :
              (i < k /\ all_records[i].date = all_records[k].date
                     /\ all_records[i] # all_records[k]) =>
                  \E a, b \in 1..Len(recs) :
                      a < b /\ recs[a] = all_records[i] /\ recs[b] = all_records[k]

\* the mean of the counts at positions lo..hi (0-based), rounded half away
\* from zero, from the quotients and remainders of the counts by the width
RoundedMean(rs, lo, hi) ==
    LET n == hi - lo + 1
        Q[i \in (lo - 1)..hi] ==
            IF i < lo THEN 0 ELSE Q[i - 1] + (CountAtPos(rs, i) \div n)
        R[i \in (lo - 1)..hi] ==
            IF i < lo THEN 0 ELSE R[i - 1] + (CountAtPos(rs, i) % n)
    IN  Q[hi] + (R[hi] \div n) + (IF 2 * (R[hi] % n) >= n THEN 1 ELSE 0)

\* C14: for n >= 8 observations the smoothed series has n - 7 points, one for
\* each position k in 6 .. n-2, dated as observation k and valued the
\* rounded mean of the counts of observations k-6 .. k; the last
\* observation's count is in no window.
C14_SmoothedSeries ==
    (pc = "plotted" /\ Len(recs) >= 8) =>
        LET n == Len(recs)
            chart == report[1]
        IN  /\ chart.line = "chart"
            /\ Len(chart.series.cases7day) = n - 7
            /\ Len(chart.series.dates7day) = n - 7
            /\ \A k \in 6..(n - 2) :
                  /\ chart.series.dates7day[k - 5] = recs[k + 1].date
                  /\ chart.series.cases7day[k - 5] = RoundedMean(recs, k - 6, k)
            /\ plot_jurisdiction([recs EXCEPT ![n].new_cases = Some(1000)])
                    .val.cases7day = chart.series.cases7day

\* the total of week w (1..16) of the 112 observations before the latest
WeekTotal(w) ==
    LET nr == Len(all_records)
    IN  SumOver(all_records, (nr - 113 + 7 * (w - 1))..(nr - 113 + 7 * w - 1))

\* C8: a 7-day chunk whose case total is zero is guarded: no weekday weight
\* becomes NaN or infinite.
C8_ZeroWeekGuarded ==
    (/\ pc = "dayreported" /\ dayper.ok
     /\ \E w \in 1..16 : WeekTotal(w) = 0) =>
        \A wd \in 1..7 : dayper.val[wd].d > 0

\* Pennsylvania's series holds one observation per consecutive day, every
\* day with the same positive count
SameCountEveryDay ==
    /\ all_records # <<>>
    /\ \A i \in 1..Len(all_records) : all_records[i].county = "Pennsylvania"
    /\ \A i \in 2..Len(all_records) :
          all_records[i].date = add_days(all_records[i - 1].date, 1)
    /\ \E c \in 1..MaxDayConst :
          \A i \in 1..Len(all_records) : all_records[i].new_cases = Some(c)

\* C9: on a series of consecutive days that all have the same positive count
\* the seven weekday weights are 1/7 each and sum to 1.
C9_UniformWeights ==
    (pc = "dayreported" /\ dayper.ok /\ SameCountEveryDay) =>
        /\ \A wd \in 1..7 : dayper.val[wd].d > 0 /\ 7 * dayper.val[wd].n = dayper.val[wd].d
        /\ f_add(dayper.val[1], f_add(dayper.val[2], f_add(dayper.val[3],
              f_add(dayper.val[4], f_add(dayper.val[5], f_add(dayper.val[6],
                dayper.val[7])))))) = Frac(1, 1)

\* a decomposition that ran on such a series
C9_Witness ==
    /\ pc = "dayreported" /\ dayper.ok /\ SameCountEveryDay
    /\ Len(all_records) > 113
    /\ dayper.val[1] = Frac(1, 7)

====
